---- MODULE Spec2Model ----
(***************************************************************************)
(* Model of docs/validate-links.py: DocumentationLinkValidator and main.   *)
(*                                                                         *)
(* File names are modelled as integers whose order is the order of the     *)
(* names as Python strings: 1 is a name below, 3 a name above NavIndex,    *)
(* the name "testing-navigation-index.md".  The directory holds at most    *)
(* MaxDocs of the names in Names.  The content of a document is the        *)
(* sequence of its markdown links [text](path); a path is a name ending in *)
(* ".md" (one of Names, or Missing, which is never a file) or External, a  *)
(* path that does not end in ".md".  The directory does not change while   *)
(* the validator lives.                                                    *)
(***************************************************************************)
EXTENDS Integers, Sequences, FiniteSets, TLC

\* ---- bounds of the model ----
MaxDocs == 2
MaxLinks == 2
MaxCalls == 2

\* ---- names ----
NavIndex == 2
Names == {1, NavIndex, 3}
Missing == Cardinality(Names) + 1
External == Missing + 1
Paths == Names \cup {Missing, External}
Texts == {"guide", "intro"}
Sep == 0
NoOutgoing == -1

VARIABLES
    content,          \* directory: document name -> sequence of <<text, path>>
    unreadable,       \* directory: the documents whose read_text raises
    markdown_files,   \* self.markdown_files, in glob order
    errors,           \* self.errors
    warnings,         \* self.warnings
    file_map,         \* validate_all_links: keys of file_map
    all_links,        \* validate_all_links: all_links
    incoming_links,   \* validate_all_links: incoming_links
    pc,               \* "ready", "scanned", "returned", "exited"
    calls,            \* completed calls of validate_all_links
    success,          \* value returned by the last validate_all_links
    report,           \* rows of the table written by main --report
    exit_code,        \* exit status of the process, -1 while it runs
    entry_errors,     \* history: self.errors when the running call was entered
    entry_warnings    \* history: self.warnings when the running call was entered

vars == <<content, unreadable, markdown_files, errors, warnings, file_map,
          all_links, incoming_links, pc, calls, success, report,
          exit_code, entry_errors, entry_warnings>>

\* ---- records held in self.errors and self.warnings ----
BrokenLink(source, target, text) ==
    [kind |-> "broken", doc |-> source, target |-> target, text |-> text]

ReadFailure(source) ==
    [kind |-> "read", doc |-> source, target |-> 0, text |-> ""]

NoIncoming(filename) == [kind |-> "orphan", doc |-> filename]

OnlyFromNav(filename) == [kind |-> "navonly", doc |-> filename]

\* ---- link_pattern: [text](path.md) with an optional #fragment ----
MatchesPattern(item) == item[2] # External

RECURSIVE FindAll(_)
FindAll(items) ==
    IF items = <<>> THEN <<>>
    ELSE IF MatchesPattern(Head(items))
         THEN <<Head(items)>> \o FindAll(Tail(items))
         ELSE FindAll(Tail(items))

\* ---- _extract_links: the links of a file, and self.errors afterwards ----
ExtractLinksNoError(md_file, errs) ==
    IF md_file \in unreadable
    THEN [links |-> <<>>, errors |-> errs]
    ELSE [links |-> FindAll(content[md_file]), errors |-> errs]

ExtractLinks(md_file, errs) ==
    IF md_file \in unreadable
    THEN [links |-> <<>>, errors |-> Append(errs, ReadFailure(md_file))]
    ELSE [links |-> FindAll(content[md_file]), errors |-> errs]

\* ---- file_map = {f.name: f for f in self.markdown_files} ----
FileMap(files) == {files[k] : k \in 1..Len(files)}

\* ---- lines 52-59: the check of one extracted link ----
TrackDistinct(inc, target, entry) ==
    IF target \notin DOMAIN inc THEN (target :> <<entry>>) @@ inc
    ELSE IF \E k \in 1..Len(inc[target]) : inc[target][k] = entry THEN inc
    ELSE [inc EXCEPT ![target] = Append(@, entry)]

Track(inc, target, entry) ==
    IF target \notin DOMAIN inc THEN (target :> <<entry>>) @@ inc
    ELSE [inc EXCEPT ![target] = Append(@, entry)]

CheckLinkOnce(source, link, fm, acc) ==
    IF link[2] \notin fm
    THEN IF \E k \in 1..Len(acc.errors) :
                acc.errors[k] = BrokenLink(source, link[2], link[1])
         THEN acc
         ELSE [errors |-> Append(acc.errors, BrokenLink(source, link[2], link[1])),
               incoming |-> acc.incoming]
    ELSE [errors |-> acc.errors,
          incoming |-> Track(acc.incoming, link[2], <<source, link[1]>>)]

CheckLink(source, link, fm, acc) ==
    IF link[2] \notin fm
    THEN [errors |-> Append(acc.errors, BrokenLink(source, link[2], link[1])),
          incoming |-> acc.incoming]
    ELSE [errors |-> acc.errors,
          incoming |-> Track(acc.incoming, link[2], <<source, link[1]>>)]

RECURSIVE CheckLinks(_, _, _, _)
CheckLinks(source, links, fm, acc) ==
    IF links = <<>> THEN acc
    ELSE CheckLinks(source, Tail(links), fm, CheckLink(source, Head(links), fm, acc))

\* ---- lines 63-70: the orphan check of one file ----
OrphanCheckSilent(filename, inc, warns) ==
    IF filename = NavIndex THEN warns
    ELSE IF filename \notin DOMAIN inc THEN warns
    ELSE IF Len(inc[filename]) = 1 /\ inc[filename][1][1] = NavIndex
         THEN Append(warns, OnlyFromNav(filename))
         ELSE warns

OrphanCheckNoExempt(filename, inc, warns) ==
    IF filename \notin DOMAIN inc THEN Append(warns, NoIncoming(filename))
    ELSE IF Len(inc[filename]) = 1 /\ inc[filename][1][1] = NavIndex
         THEN Append(warns, OnlyFromNav(filename))
         ELSE warns

OrphanCheck(filename, inc, warns) ==
    IF filename = NavIndex THEN warns
    ELSE IF filename \notin DOMAIN inc THEN Append(warns, NoIncoming(filename))
    ELSE IF Len(inc[filename]) = 1 /\ inc[filename][1][1] = NavIndex
         THEN Append(warns, OnlyFromNav(filename))
         ELSE warns

\* ---- line 75: return len(self.errors) == 0 ----
NoBrokenLinks(errs) == \A k \in 1..Len(errs) : errs[k].kind # "broken"

NoErrors(errs) == Len(errs) = 0

\* ---- sorted(), set() and ", ".join() as generate_link_report uses them ----
RECURSIVE Insert(_, _)
Insert(x, sorted) ==
    IF sorted = <<>> THEN <<x>>
    ELSE IF x <= Head(sorted) THEN <<x>> \o sorted
    ELSE <<Head(sorted)>> \o Insert(x, Tail(sorted))

RECURSIVE Sorted(_)
Sorted(seq) == IF seq = <<>> THEN <<>> ELSE Insert(Head(seq), Sorted(Tail(seq)))

RECURSIVE Distinct(_)
Distinct(seq) ==
    IF seq = <<>> THEN <<>>
    ELSE LET rest == Distinct(Tail(seq))
         IN  IF \E k \in 1..Len(rest) : rest[k] = Head(seq)
             THEN rest
             ELSE <<Head(seq)>> \o rest

RECURSIVE Join(_)
Join(seq) ==
    IF Len(seq) <= 1 THEN seq
    ELSE <<Head(seq), Sep>> \o Join(Tail(seq))

RECURSIVE TargetsOf(_)
TargetsOf(links) ==
    IF links = <<>> THEN <<>> ELSE <<Head(links)[2]>> \o TargetsOf(Tail(links))

\* ---- lines 133-138: the "Links To" cell of one row ----
LinksToKeepingRepeats(targets) ==
    IF targets # <<>> THEN Join(Sorted(targets)) ELSE <<NoOutgoing>>

LinksTo(targets) ==
    IF targets # <<>> THEN Join(Sorted(Distinct(targets))) ELSE <<NoOutgoing>>

\* ---- lines 124-126: link_matrix and self.errors after the loop ----
RECURSIVE BuildMatrix(_, _)
BuildMatrix(files, acc) ==
    IF files = <<>> THEN acc
    ELSE LET got == ExtractLinks(Head(files), acc.errors)
         IN  BuildMatrix(Tail(files),
                 [matrix |-> (Head(files) :> TargetsOf(got.links)) @@ acc.matrix,
                  errors |-> got.errors])

\* ---- lines 132-138: the rows of the table ----
RECURSIVE Rows(_, _)
Rows(keys, matrix) ==
    IF keys = <<>> THEN <<>>
    ELSE <<[source_file |-> Head(keys), links_to |-> LinksTo(matrix[Head(keys)])]>>
         \o Rows(Tail(keys), matrix)

GenerateLinkReport(files, errs) ==
    LET built == BuildMatrix(files, [matrix |-> <<>>, errors |-> errs])
    IN  [rows |-> Rows(Sorted(files), built.matrix), errors |-> built.errors]

\* ---- the directories the validator is constructed on ----
Items == Texts \X Paths

Placements(docs, k) ==
    {lay \in [1..k -> docs \X Items] :
        \A a \in 1..k : \A b \in a..k : lay[a][1] <= lay[b][1]}

RECURSIVE ItemsOf(_, _)
ItemsOf(lay, d) ==
    IF lay = <<>> THEN <<>>
    ELSE IF Head(lay)[1] = d
         THEN <<Head(lay)[2]>> \o ItemsOf(Tail(lay), d)
         ELSE ItemsOf(Tail(lay), d)

GlobOrders(docs) ==
    {order \in [1..Cardinality(docs) -> docs] :
        \A a, b \in 1..Cardinality(docs) : a # b => order[a] # order[b]}

\* ---- lines 25-30 and 150: the validator main constructs ----
Init ==
    /\ \E docs \in {ds \in SUBSET Names : Cardinality(ds) <= MaxDocs} :
         /\ markdown_files \in GlobOrders(docs)
         /\ unreadable \in SUBSET docs
         /\ \E k \in 0..MaxLinks : \E lay \in Placements(docs, k) :
                content = [d \in docs |-> ItemsOf(lay, d)]
    /\ errors = <<>>
    /\ warnings = <<>>
    /\ file_map = {}
    /\ all_links = <<>>
    /\ incoming_links = <<>>
    /\ pc = "ready"
    /\ calls = 0
    /\ success = FALSE
    /\ report = <<>>
    /\ exit_code = -1
    /\ entry_errors = <<>>
    /\ entry_warnings = <<>>

directory == <<content, unreadable, markdown_files>>

\* ---- lines 44-59: the scan loop ----
RECURSIVE ScanFiles(_, _, _)
ScanFiles(files, fm, acc) ==
    IF files = <<>> THEN acc
    ELSE LET md_file == Head(files)
             got == ExtractLinks(md_file, acc.errors)
             checked == CheckLinks(md_file, got.links, fm,
                            [errors |-> got.errors, incoming |-> acc.incoming])
         IN  ScanFiles(Tail(files), fm,
                 [errors |-> checked.errors,
                  incoming |-> checked.incoming,
                  all_links |-> (md_file :> got.links) @@ acc.all_links])

\* ---- lines 62-70: the orphan loop ----
RECURSIVE OrphanPass(_, _, _)
OrphanPass(files, inc, warns) ==
    IF files = <<>> THEN warns
    ELSE OrphanPass(Tail(files), inc, OrphanCheck(Head(files), inc, warns))

\* ---- lines 32-59: validate_all_links up to the end of the scan loop ----
ValidateScan ==
    /\ pc \in {"ready", "returned"}
    /\ calls < MaxCalls
    /\ LET scanned == ScanFiles(markdown_files, FileMap(markdown_files),
                          [errors |-> errors, incoming |-> <<>>, all_links |-> <<>>])
       IN  /\ errors' = scanned.errors
           /\ incoming_links' = scanned.incoming
           /\ all_links' = scanned.all_links
    /\ file_map' = FileMap(markdown_files)
    /\ pc' = "scanned"
    /\ entry_errors' = errors
    /\ entry_warnings' = warnings
    /\ UNCHANGED <<directory, warnings, calls, success, report, exit_code>>

\* ---- lines 61-75: the orphan loop, the results, the returned value ----
ValidateOrphans ==
    /\ pc = "scanned"
    /\ warnings' = OrphanPass(markdown_files, incoming_links, warnings)
    /\ success' = NoErrors(errors)
    /\ calls' = calls + 1
    /\ pc' = "returned"
    /\ UNCHANGED <<directory, errors, file_map, all_links, incoming_links,
                   report, exit_code, entry_errors, entry_warnings>>

\* ---- lines 159-169: main after its call of validate_all_links ----
MainExit ==
    /\ pc = "returned"
    /\ calls = 1
    /\ exit_code' = IF ~success THEN 1 ELSE 0
    /\ pc' = "exited"
    /\ UNCHANGED <<directory, errors, warnings, file_map, all_links,
                   incoming_links, calls, success, report,
                   entry_errors, entry_warnings>>

\* ---- lines 152-157: main --report ----
MainReport ==
    /\ pc = "ready"
    /\ LET made == GenerateLinkReport(markdown_files, errors)
       IN  /\ report' = made.rows
           /\ errors' = made.errors
    /\ exit_code' = 0
    /\ pc' = "exited"
    /\ UNCHANGED <<directory, warnings, file_map, all_links, incoming_links,
                   calls, success, entry_errors, entry_warnings>>

Next ==
    \/ ValidateScan
    \/ ValidateOrphans
    \/ MainExit
    \/ MainReport

Spec == Init /\ [][Next]_vars

(***************************************************************************)
(* The directory as the claims speak of it.                                *)
(***************************************************************************)
Enumerated == {markdown_files[k] : k \in DOMAIN markdown_files}

Extracted(d) ==
    IF d \in unreadable THEN <<>>
    ELSE SelectSeq(content[d], LAMBDA item : item[2] # External)

\* a link occurrence: the document, the position among its extracted links,
\* and the text and target extracted there
Occurrences ==
    UNION {{[doc |-> d, pos |-> k, text |-> Extracted(d)[k][1],
             target |-> Extracted(d)[k][2]] : k \in 1..Len(Extracted(d))}
           : d \in Enumerated}

Count(seq, x) == Cardinality({k \in 1..Len(seq) : seq[k] = x})

ScanPosition(d) == CHOOSE k \in DOMAIN markdown_files : markdown_files[k] = d

\* a call of validate_all_links has just returned
Validated == pc = "returned"

ScanLoopDone == pc = "scanned" \/ Validated

ReportWritten == pc = "exited" /\ calls = 0

\* what the last call appended to self.errors and self.warnings
RecordedErrors == SubSeq(errors, Len(entry_errors) + 1, Len(errors))

RecordedWarnings == SubSeq(warnings, Len(entry_warnings) + 1, Len(warnings))

\* C1: a call records, for each link occurrence with an unknown target, one
\* error naming its source, target and text (as many equal errors as there are
\* equal occurrences), and no error for an occurrence whose target is an
\* enumerated document; after the first call on a fresh validator the number
\* of broken-link errors is the number of occurrences with an unknown target.
C1_BrokenLinkErrors ==
    Validated =>
        LET occ == Occurrences
            known == Enumerated
            recorded == RecordedErrors
        IN  /\ \A o \in occ :
                 LET e == BrokenLink(o.doc, o.target, o.text)
                     same == {q \in occ : /\ q.doc = o.doc
                                          /\ q.target = o.target
                                          /\ q.text = o.text}
                 IN  IF o.target \notin known
                     THEN Count(recorded, e) = Cardinality(same)
                     ELSE Count(errors, e) = 0
            /\ calls = 1 =>
                 Cardinality({k \in 1..Len(errors) : errors[k].kind = "broken"})
                     = Cardinality({o \in occ : o.target \notin known})

C1_Witness ==
    /\ Validated
    /\ calls = 1
    /\ \E o, q \in Occurrences :
         /\ o.target \notin Enumerated
         /\ q.target \in Enumerated
         /\ ScanPosition(q.target) > ScanPosition(q.doc)

\* C2: validate_all_links returns true exactly when it holds no error, that
\* is when no extracted link has an unknown target and no enumerated document
\* is unreadable, whatever the warnings; main in default mode exits with 1
\* exactly when the call returned false and with 0 otherwise.
C2_SuccessIffNoErrors ==
    /\ Validated =>
         /\ success <=> (Len(errors) = 0)
         /\ success <=> ( /\ \A o \in Occurrences : o.target \in Enumerated
                          /\ Enumerated \cap unreadable = {} )
    /\ (pc = "exited" /\ calls >= 1) =>
         /\ exit_code \in {0, 1}
         /\ exit_code = 1 <=> ~success

C2_Witness ==
    /\ pc = "exited"
    /\ calls >= 1
    /\ exit_code = 0
    /\ Len(warnings) > 0

\* C3: after a call, every enumerated document other than the navigation
\* index that no extracted link targets has a "No incoming links" warning
\* recorded by that call.
C3_OrphanWarned ==
    Validated =>
        LET occ == Occurrences
            recorded == RecordedWarnings
        IN  \A D \in Enumerated \ {NavIndex} :
                (\A o \in occ : o.target # D)
                    => Count(recorded, NoIncoming(D)) >= 1

C3_Witness ==
    /\ Validated
    /\ \E D, E \in Enumerated \ {NavIndex} :
         /\ \A o \in Occurrences : o.target # D
         /\ \E o \in Occurrences : o.target = E /\ o.doc = D

\* C4 (as claimed): after a call, every enumerated document other than the
\* navigation index that has incoming links, all of them from the navigation
\* index, however many, has an "Only referenced from navigation index" warning.
C4_OnlyFromNavWarned ==
    Validated =>
        LET occ == Occurrences
        IN  \A X \in Enumerated \ {NavIndex} :
                ( /\ \E o \in occ : o.target = X
                  /\ \A o \in occ : o.target = X => o.doc = NavIndex )
                    => Count(RecordedWarnings, OnlyFromNav(X)) >= 1

\* C5: one call records at most one warning per enumerated document and none
\* for the navigation index.
C5_AtMostOneWarning ==
    Validated =>
        LET recorded == RecordedWarnings
        IN  \A D \in Enumerated :
                LET n == Cardinality({k \in 1..Len(recorded) : recorded[k].doc = D})
                IN  /\ n <= 1
                    /\ D = NavIndex => n = 0

C5_Witness ==
    /\ Validated
    /\ calls = 1
    /\ NavIndex \in Enumerated
    /\ \A o \in Occurrences : o.target # NavIndex
    /\ Len(warnings) > 0

\* C6 (as claimed): after a second call on the unchanged directory the
\* validator holds the same errors and warnings as after the first call.
C6_SecondCallSameRecords ==
    (pc = "returned" /\ calls >= 2) =>
        /\ errors = entry_errors
        /\ warnings = entry_warnings

IndexEntry(T) == IF T \in DOMAIN incoming_links THEN incoming_links[T] ELSE <<>>

\* C7: a call records exactly one read-failure error for an unreadable
\* document and takes its links to be none: no broken-link error and no index
\* entry has it as source.  Every document is still scanned (all_links holds
\* the extracted links of each, the errors are the read failures plus the
\* unknown-target occurrences), links to the unreadable document are valid
\* and indexed, and the orphan pass covers it.
C7_ReadFailureIsolated ==
    Validated =>
        LET occ == Occurrences
            known == Enumerated
            recorded == RecordedErrors
        IN  /\ DOMAIN all_links = known
            /\ \A d \in known : all_links[d] = Extracted(d)
            /\ Len(recorded) = Cardinality(known \cap unreadable)
                                 + Cardinality({o \in occ : o.target \notin known})
            /\ \A U \in known \cap unreadable :
                 /\ Count(recorded, ReadFailure(U)) = 1
                 /\ all_links[U] = <<>>
                 /\ \A k \in 1..Len(recorded) :
                        recorded[k].kind = "broken" => recorded[k].doc # U
                 /\ \A T \in DOMAIN incoming_links :
                        \A k \in 1..Len(incoming_links[T]) :
                            incoming_links[T][k][1] # U
                 /\ \A o \in occ :
                        o.target = U =>
                            /\ Count(errors, BrokenLink(o.doc, U, o.text)) = 0
                            /\ Count(IndexEntry(U), <<o.doc, o.text>>) >= 1
                 /\ (U # NavIndex /\ \A o \in occ : o.target # U)
                        => Count(RecordedWarnings, NoIncoming(U)) = 1

C7_Witness ==
    /\ Validated
    /\ \E U \in Enumerated \cap unreadable :
         /\ \E k \in 1..Len(content[U]) : content[U][k][2] # External
         /\ \E o \in Occurrences : o.target = U

\* C8: the report has one row per enumerated document, rows in ascending
\* order of document name; the cell of a document without extracted links is
\* the placeholder, and otherwise it is the document's distinct targets, each
\* once, ascending, separated by the separator.
C8_ReportRows ==
    ReportWritten =>
        /\ Len(report) = Cardinality(Enumerated)
        /\ \A k \in 1..Len(report) : report[k].source_file \in Enumerated
        /\ \A a, b \in 1..Len(report) :
             a < b => report[a].source_file < report[b].source_file
        /\ \A k \in 1..Len(report) :
             LET d == report[k].source_file
                 cell == report[k].links_to
                 T == {Extracted(d)[j][2] : j \in 1..Len(Extracted(d))}
             IN  IF Extracted(d) = <<>>
                 THEN cell = <<NoOutgoing>>
                 ELSE /\ Len(cell) = 2 * Cardinality(T) - 1
                      /\ \A t \in T : Count(cell, t) = 1
                      /\ \A j \in 1..Len(cell) :
                           IF j % 2 = 1 THEN cell[j] \in T ELSE cell[j] = Sep
                      /\ \A i, j \in 1..Len(cell) :
                           (i % 2 = 1 /\ j % 2 = 1 /\ i < j) => cell[i] < cell[j]

C8_Witness ==
    /\ ReportWritten
    /\ Len(markdown_files) >= 2
    /\ markdown_files[1] > markdown_files[2]
    /\ \E d \in Enumerated :
         /\ Len(Extracted(d)) = 2
         /\ Extracted(d)[1][2] = Extracted(d)[2][2]
         /\ Extracted(d)[1][1] # Extracted(d)[2][1]

\* C9 (as claimed): after a call, every enumerated document other than the
\* navigation index that no other document links to has a warning, also when
\* it links to itself.
C9_UnlinkedByOthersWarned ==
    Validated =>
        LET occ == Occurrences
        IN  \A D \in Enumerated \ {NavIndex} :
                (\A o \in occ : o.target = D => o.doc = D)
                    => \E k \in 1..Len(RecordedWarnings) :
                           RecordedWarnings[k].doc = D

Before(q, o) ==
    \/ ScanPosition(q.doc) < ScanPosition(o.doc)
    \/ q.doc = o.doc /\ q.pos < o.pos

\* C10: when the scan loop has ended, the index has keys among the enumerated
\* documents only, and under each of them one <<source, text>> entry per
\* extracted occurrence with that target, in scan order, repeats included.
C10_IncomingIndex ==
    ScanLoopDone =>
        LET occ == Occurrences
        IN  /\ DOMAIN incoming_links \subseteq Enumerated
            /\ \A T \in Enumerated :
                 LET into == {o \in occ : o.target = T}
                     entry == IndexEntry(T)
                 IN  /\ Len(entry) = Cardinality(into)
                     /\ \A o \in into :
                          entry[1 + Cardinality({q \in into : Before(q, o)})]
                              = <<o.doc, o.text>>

C10_Witness ==
    /\ pc = "scanned"
    /\ \E o, q \in Occurrences :
         /\ o # q
         /\ o.doc = q.doc
         /\ o.target = q.target
         /\ o.text = q.text
         /\ o.target \in Enumerated

====
